---- MODULE Spec2Model ----
(***************************************************************************)
(* Credential providers of databricks.sql.auth.authenticators:             *)
(* AccessTokenAuthProvider, BasicAuthProvider and DatabricksOAuthProvider. *)
(* The OAuth provider is modelled statement by statement, one caller's     *)
(* position per pc value, with the token store (OAuthPersistence) and the  *)
(* token exchange (get_tokens, check_and_refresh_access_token) as          *)
(* nondeterministic collaborators that return a value or raise.            *)
(* A persist that raises leaves the store as it was; read returns what    *)
(* was last persisted.                                                     *)
(***************************************************************************)
EXTENDS Integers, Sequences, FiniteSets, TLC

\* ------------------------------------------------------------------ bounds
\* add_headers calls made on one provider instance
MaxInjects == 2

\* scopes in the list a provider is constructed with
MaxScopes == 2

\* ------------------------------------------------------------ Python values
\* Python's None, as a value distinct from every string the model uses
None == "<None>"

\* str(x) as an f-string / str.format renders it
Str(x) == IF x = None THEN "None" ELSE x

\* bool(x) of an optional string: None and "" are falsy
Truthy(x) == x # None /\ x # ""

\* OAuthToken(access_token, refresh_token)
OAuthToken(a, r) == [access_token |-> a, refresh_token |-> r]

\* the dict with no entries
EmptyDict == [k \in {} |-> ""]

\* mutant of SetItem: the dict is rebuilt with the one entry
SetItem_Replace(d, key, value) == [k \in {key} |-> value]

\* request_headers[key] = value
SetItem(d, key, value) ==
    [k \in (DOMAIN d) \cup {key} |-> IF k = key THEN value ELSE d[k]]

\* --------------------------------------------------- str.encode and base64
\* mutant of Utf8Char: one byte per code point, as Latin-1 encodes
Utf8Char_Latin1(cp) == <<cp>>

\* one code point as its UTF-8 bytes
Utf8Char(cp) ==
    IF cp < 128 THEN <<cp>>
    ELSE IF cp < 2048 THEN <<192 + (cp \div 64), 128 + (cp % 64)>>
    ELSE IF cp < 65536
         THEN <<224 + (cp \div 4096), 128 + ((cp \div 64) % 64), 128 + (cp % 64)>>
         ELSE <<240 + (cp \div 262144), 128 + ((cp \div 4096) % 64),
                128 + ((cp \div 64) % 64), 128 + (cp % 64)>>

RECURSIVE Utf8Encode(_)
\* s.encode("UTF-8"), s a sequence of code points
Utf8Encode(s) ==
    IF s = <<>> THEN <<>> ELSE Utf8Char(Head(s)) \o Utf8Encode(Tail(s))

\* the standard base64 alphabet, value v at position v + 1
B64Alphabet ==
    <<"A","B","C","D","E","F","G","H","I","J","K","L","M","N","O","P",
      "Q","R","S","T","U","V","W","X","Y","Z","a","b","c","d","e","f",
      "g","h","i","j","k","l","m","n","o","p","q","r","s","t","u","v",
      "w","x","y","z","0","1","2","3","4","5","6","7","8","9","+","/">>

B64Digit(v) == B64Alphabet[v + 1]

RECURSIVE StandardB64Encode(_)
\* base64.standard_b64encode(b).decode("UTF-8"), b a sequence of bytes
StandardB64Encode(b) ==
    IF Len(b) = 0 THEN ""
    ELSE IF Len(b) = 1
    THEN B64Digit(b[1] \div 4) \o B64Digit((b[1] % 4) * 16) \o "=="
    ELSE IF Len(b) = 2
    THEN B64Digit(b[1] \div 4) \o B64Digit((b[1] % 4) * 16 + (b[2] \div 16))
         \o B64Digit((b[2] % 16) * 4) \o "="
    ELSE B64Digit(b[1] \div 4) \o B64Digit((b[1] % 4) * 16 + (b[2] \div 16))
         \o B64Digit((b[2] % 16) * 4 + (b[3] \div 64)) \o B64Digit(b[3] % 64)
         \o StandardB64Encode(SubSeq(b, 4, Len(b)))

\* the code point of ':'
Colon == 58

\* BasicAuthProvider.__init__: the cached header value
BasicHeaderValue(username, password) ==
    "Basic " \o StandardB64Encode(Utf8Encode(username \o <<Colon>> \o password))

\* AccessTokenAuthProvider.__init__: the cached header value
BearerHeaderValue(access_token) == "Bearer " \o Str(access_token)

\* ------------------------------------------- host names and scope strings
\* host names and scopes are sequences of one-character strings
HttpsScheme == <<"h", "t", "t", "p", "s", ":", "/", "/">>

\* s.startswith(prefix)
StartsWith(s, prefix) ==
    Len(s) >= Len(prefix) /\ SubSeq(s, 1, Len(prefix)) = prefix

\* s.endswith(suffix)
EndsWith(s, suffix) ==
    Len(s) >= Len(suffix) /\ SubSeq(s, Len(s) - Len(suffix) + 1, Len(s)) = suffix

\* DatabricksOAuthProvider._normalize_host_name
_normalize_host_name(hostname) ==
    LET maybe_scheme == IF ~StartsWith(hostname, HttpsScheme) THEN HttpsScheme ELSE <<>>
        maybe_trailing_slash == IF ~EndsWith(hostname, <<"/">>) THEN <<"/">> ELSE <<>>
    IN  maybe_scheme \o hostname \o maybe_trailing_slash

\* DatabricksOAuthProvider.SCOPE_DELIM
SCOPE_DELIM == <<" ">>

RECURSIVE Join_Trailing(_, _)
\* mutant of Join: the delimiter follows every element
Join_Trailing(delim, list) ==
    IF list = <<>> THEN <<>>
    ELSE list[1] \o delim \o Join_Trailing(delim, Tail(list))

RECURSIVE Join(_, _)
\* delim.join(list)
Join(delim, list) ==
    IF list = <<>> THEN <<>>
    ELSE IF Len(list) = 1 THEN list[1]
    ELSE list[1] \o delim \o Join(delim, Tail(list))

\* --------------------------------------------------------- input domains
\* callers of one provider instance; Next runs the callers of SingleCaller
Callers == {1, 2}
SingleCaller == {1}

\* access and refresh tokens the token exchange hands out; a grant may come
\* without a refresh token
AccessTokens == {"a1", "a2"}
RefreshTokens == {"r1", "r2", None}

\* what a persisted OAuthToken may hold in a field
StoredAccess == {None, "", "a1"}
StoredRefresh == {None, "", "r1"}

\* contents of the token store before construction: <<>> is "read() returns None"
StoreContents ==
    {<<>>} \cup {<<OAuthToken(a, r)>> : a \in StoredAccess, r \in StoredRefresh}

\* user names and passwords as code-point sequences: "", "u", "pw", "é", "a:b"
Credentials == {<<>>, <<117>>, <<112, 119>>, <<233>>, <<97, 58, 98>>}

\* the host name, client id and scopes the provider is constructed with
\* unless a specification draws them from a larger set
DefaultHost == <<"h", "o", "s", "t", ".", "c", "o", "m">>
DefaultClientId == "client-id"
DefaultScopes == <<<<"r", "e", "a", "d">>, <<"w", "r", "i", "t", "e">>>>

\* scope lists a caller may construct the provider with: "read", "write"
\* and "" in any order, repeated or not
ScopeWords == {<<"r", "e", "a", "d">>, <<"w", "r", "i", "t", "e">>, <<>>}
ScopeLists == UNION {[1..n -> ScopeWords] : n \in 0..MaxScopes}

\* host names a caller may construct the provider with: a scheme or none,
\* a name, zero to two trailing slashes
HostPrefixes ==
    {<<>>, HttpsScheme,
     <<"h", "t", "t", "p", ":", "/", "/">>,
     <<"h", "t", "t", "p", "s", ":", "/">>,
     <<"H", "T", "T", "P", "S", ":", "/", "/">>,
     <<"f", "t", "p", ":", "/", "/">>}
HostBodies == {<<>>, DefaultHost, <<"h">>, <<"h", "/", "x">>}
HostSuffixes == {<<>>, <<"/">>, <<"/", "/">>}
Hostnames ==
    {p \o b \o x : p \in HostPrefixes, b \in HostBodies, x \in HostSuffixes}

\* the pairs the exchange returns to concurrent callers
ConcurrentGrants == {<<"a1", "r1">>, <<"a2", "r2">>}

\* header collections a caller may pass to add_headers
HeaderInputs ==
    {EmptyDict,
     [k \in {"Accept"} |-> "text/plain"],
     [k \in {"Authorization"} |-> "Bearer stale"],
     [k \in {"Authorization", "Accept"} |->
         IF k = "Authorization" THEN "Basic b2xk" ELSE "text/plain"]}

\* ---------------------------------------------------------------- state
VARIABLES
    kind,                        \* class of the instance: "none" before construction
    phase,                       \* "Uninitialized", "Constructing", "Ready", "Failed"
    authorization_header_value,  \* the stateless providers' cached header value
    _oauth_persistence,          \* TRUE: an OAuthPersistence object, FALSE: None
    _access_token,               \* DatabricksOAuthProvider._access_token
    _refresh_token,              \* DatabricksOAuthProvider._refresh_token
    store,                       \* what OAuthPersistence.read() returns: <<>> or <<token>>
    pc,                          \* per caller: the statement it is at
    op,                          \* per caller: the operation it is in or was last in
    outcome,                     \* per caller: how its last operation ended
    local,                       \* per caller: the tuple the last exchange call returned
    request_headers,             \* per caller: the dict passed to add_headers
    injects,                     \* add_headers calls started so far
    headersAtCall,               \* history: request_headers when add_headers was entered
    memAtCall,                   \* history: the token pair when add_headers was entered
    calls,                       \* history: per caller, collaborator calls of its add_headers
    prevCalls,                   \* history: the calls of the add_headers before this one
    ctorCalls,                   \* history: collaborator calls of __init__
    origin,                      \* history: which call produced _access_token
    installed,                   \* history: per caller, origin of the token last installed
    _hostname,                   \* DatabricksOAuthProvider._hostname
    _scopes_as_str,              \* DatabricksOAuthProvider._scopes_as_str
    _client_id,                  \* DatabricksOAuthProvider._client_id
    ctorArgs,                    \* history: the arguments the instance was constructed with
    adoptions,                   \* history: executions of line 122 so far
    checkedAt,                   \* history: per caller, adoptions when its check was called
    overlap                      \* history: a caller entered add_headers during another's call

control == <<pc, op, outcome, phase>>
tokens == <<_access_token, _refresh_token, origin>>
history == <<calls, ctorCalls>>
identity == <<_hostname, _scopes_as_str, _client_id, ctorArgs>>
race == <<adoptions, checkedAt, overlap>>
vars == <<kind, phase, authorization_header_value, _oauth_persistence,
          _access_token, _refresh_token, store, pc, op, outcome, local,
          request_headers, injects, headersAtCall, memAtCall, calls, prevCalls,
          ctorCalls, origin, installed, _hostname, _scopes_as_str, _client_id,
          ctorArgs, adoptions, checkedAt, overlap>>

\* the in-memory token pair
Pair == <<_access_token, _refresh_token>>

\* one collaborator call: its name, arguments, whether it returned, and what
Call(fn, arg, ok, ret) == [fn |-> fn, arg |-> arg, ok |-> ok, ret |-> ret]

\* the call is appended to the record of the operation caller c is in
Logged(c, rec) ==
    IF op[c] = "ctor"
    THEN /\ ctorCalls' = Append(ctorCalls, rec)
         /\ UNCHANGED calls
    ELSE /\ calls' = [calls EXCEPT ![c] = Append(@, rec)]
         /\ UNCHANGED ctorCalls

Init ==
    /\ kind = "none"
    /\ phase = "Uninitialized"
    /\ authorization_header_value = None
    /\ _oauth_persistence = FALSE
    /\ _access_token = None
    /\ _refresh_token = None
    /\ store \in StoreContents
    /\ pc = [c \in Callers |-> "idle"]
    /\ op = [c \in Callers |-> "none"]
    /\ outcome = [c \in Callers |-> "none"]
    /\ local = [c \in Callers |-> <<>>]
    /\ request_headers = [c \in Callers |-> EmptyDict]
    /\ injects = 0
    /\ headersAtCall = [c \in Callers |-> EmptyDict]
    /\ memAtCall = [c \in Callers |-> <<None, None>>]
    /\ calls = [c \in Callers |-> <<>>]
    /\ prevCalls = <<>>
    /\ ctorCalls = <<>>
    /\ origin = "none"
    /\ installed = [c \in Callers |-> "none"]
    /\ _hostname = None
    /\ _scopes_as_str = None
    /\ _client_id = None
    /\ ctorArgs = <<>>
    /\ adoptions = 0
    /\ checkedAt = [c \in Callers |-> 0]
    /\ overlap = FALSE

\* ------------------------------------------------------- control transfer
\* caller c moves on to statement l of the same operation
Goto(c, l) ==
    /\ pc' = [pc EXCEPT ![c] = l]
    /\ UNCHANGED <<op, outcome, phase>>

\* the operation of caller c returns to its caller; __init__ returning yields
\* the instance
ReturnToCaller(c) ==
    /\ pc' = [pc EXCEPT ![c] = "idle"]
    /\ outcome' = [outcome EXCEPT ![c] = "returned"]
    /\ phase' = IF op[c] = "ctor" THEN "Ready" ELSE phase
    /\ UNCHANGED op

\* mutant of PropagateToCaller: any exception leaves the instance unusable
PropagateToCaller_Disable(c) ==
    /\ pc' = [pc EXCEPT ![c] = "idle"]
    /\ outcome' = [outcome EXCEPT ![c] = "raised"]
    /\ phase' = "Failed"
    /\ UNCHANGED op

\* an exception leaves the operation of caller c; out of __init__ it leaves
\* the caller without an instance
PropagateToCaller(c) ==
    /\ pc' = [pc EXCEPT ![c] = "idle"]
    /\ outcome' = [outcome EXCEPT ![c] = "raised"]
    /\ phase' = IF op[c] = "ctor" THEN "Failed" ELSE phase
    /\ UNCHANGED op

\* mutant of ExceptInit: the handler logs and does not raise
ExceptInit_Swallow(c) == ReturnToCaller(c)

\* __init__, lines 76-78: log and raise e
ExceptInit(c) == PropagateToCaller(c)

\* _initial_get_token, lines 108-110: log and raise e, into __init__'s handler
ExceptInitialGetToken(c) == ExceptInit(c)

\* _update_token_if_expired returns normally: to line 82 of add_headers, or
\* to the end of _initial_get_token and of __init__
ReturnFromUpdate(c) ==
    IF op[c] = "ctor" THEN ReturnToCaller(c) ELSE Goto(c, "set_header")

\* mutant of ExceptUpdateToken: the handler logs and does not raise
ExceptUpdateToken_Swallow(c) == ReturnFromUpdate(c)

\* _update_token_if_expired, lines 128-130: log and raise e, into the handler
\* of _initial_get_token or out of add_headers
ExceptUpdateToken(c) ==
    IF op[c] = "ctor" THEN ExceptInitialGetToken(c) ELSE PropagateToCaller(c)

\* ------------------------------------------------- the stateless providers
\* AccessTokenAuthProvider.__init__
ConstructAccessToken ==
    /\ phase = "Uninitialized"
    /\ \E access_token \in AccessTokens \cup {""} :
          /\ authorization_header_value' = BearerHeaderValue(access_token)
          /\ ctorArgs' = [access_token |-> access_token]
    /\ kind' = "token"
    /\ phase' = "Ready"
    /\ UNCHANGED <<_hostname, _scopes_as_str, _client_id, race,
                   _oauth_persistence, tokens, store, pc, op, outcome, local,
                   request_headers, injects, headersAtCall, memAtCall,
                   history, prevCalls, installed>>

\* BasicAuthProvider.__init__
ConstructBasic ==
    /\ phase = "Uninitialized"
    /\ \E username \in Credentials, password \in Credentials :
          /\ authorization_header_value' = BasicHeaderValue(username, password)
          /\ ctorArgs' = [username |-> username, password |-> password]
    /\ kind' = "basic"
    /\ phase' = "Ready"
    /\ UNCHANGED <<_hostname, _scopes_as_str, _client_id, race,
                   _oauth_persistence, tokens, store, pc, op, outcome, local,
                   request_headers, injects, headersAtCall, memAtCall,
                   history, prevCalls, installed>>

\* a caller enters add_headers of the constructed instance with a dict of
\* the given set
CallAddHeadersWith(c, inputs) ==
    /\ phase = "Ready"
    /\ pc[c] = "idle"
    /\ injects < MaxInjects
    /\ injects' = injects + 1
    /\ \E h \in inputs :
          /\ request_headers' = [request_headers EXCEPT ![c] = h]
          /\ headersAtCall' = [headersAtCall EXCEPT ![c] = h]
    /\ memAtCall' = [memAtCall EXCEPT ![c] = Pair]
    /\ prevCalls' = calls[c]
    /\ calls' = [calls EXCEPT ![c] = <<>>]
    /\ op' = [op EXCEPT ![c] = "inject"]
    /\ outcome' = [outcome EXCEPT ![c] = "running"]
    /\ pc' = [pc EXCEPT ![c] = IF kind = "oauth" THEN "update_check" ELSE "set_cached"]
    /\ overlap' = (overlap \/ \E d \in Callers \ {c} : pc[d] # "idle")
    /\ UNCHANGED <<identity, adoptions, checkedAt, kind, phase,
                   authorization_header_value, _oauth_persistence, tokens,
                   store, local, ctorCalls, installed>>

\* a caller enters add_headers with any dict of HeaderInputs
CallAddHeaders(c) == CallAddHeadersWith(c, HeaderInputs)

\* AccessTokenAuthProvider.add_headers and BasicAuthProvider.add_headers
SetCachedHeader(c) ==
    /\ pc[c] = "set_cached"
    /\ request_headers' =
          [request_headers EXCEPT
              ![c] = SetItem(@, "Authorization", authorization_header_value)]
    /\ ReturnToCaller(c)
    /\ UNCHANGED <<identity, race, kind, authorization_header_value,
                   _oauth_persistence, tokens, store, local, injects,
                   headersAtCall, memAtCall, history, prevCalls, installed>>

\* ------------------------------------------- DatabricksOAuthProvider.__init__
\* lines 67-75, up to the call of _initial_get_token, with the host name and
\* the scopes drawn from the given sets
ConstructOAuthWith(c, hostnames, scopeLists) ==
    /\ phase = "Uninitialized"
    /\ pc[c] = "idle"
    /\ \E hostname \in hostnames, scopes \in scopeLists, oauth_persistence \in BOOLEAN :
          /\ _hostname' = _normalize_host_name(hostname)
          /\ _scopes_as_str' = Join(SCOPE_DELIM, scopes)
          /\ _oauth_persistence' = oauth_persistence
          /\ _client_id' = DefaultClientId
          /\ ctorArgs' = [hostname |-> hostname, oauth_persistence |-> oauth_persistence,
                          client_id |-> DefaultClientId, scopes |-> scopes]
    /\ kind' = "oauth"
    /\ _access_token' = None
    /\ _refresh_token' = None
    /\ phase' = "Constructing"
    /\ op' = [op EXCEPT ![c] = "ctor"]
    /\ outcome' = [outcome EXCEPT ![c] = "running"]
    /\ pc' = [pc EXCEPT ![c] = "initial_read"]
    /\ UNCHANGED <<race, authorization_header_value, origin, store, local,
                   request_headers, injects, headersAtCall, memAtCall,
                   history, prevCalls, installed>>

\* __init__ with the default host name and scopes
ConstructOAuth(c) == ConstructOAuthWith(c, {DefaultHost}, {DefaultScopes})

\* _initial_get_token, lines 92-97: read the store when the pair is incomplete
InitialRead(c) ==
    /\ pc[c] = "initial_read"
    /\ IF (_access_token = None \/ _refresh_token = None) /\ _oauth_persistence
       THEN \/ /\ Logged(c, Call("read", <<>>, FALSE, <<>>))
               /\ ExceptInitialGetToken(c)
               /\ UNCHANGED tokens
            \/ /\ Logged(c, Call("read", <<>>, TRUE, store))
               /\ IF store # <<>>
                  THEN /\ _access_token' = store[1].access_token
                       /\ _refresh_token' = store[1].refresh_token
                       /\ origin' = "store"
                  ELSE UNCHANGED tokens
               /\ Goto(c, "initial_branch")
       ELSE /\ Goto(c, "initial_branch")
            /\ UNCHANGED <<tokens, history>>
    /\ UNCHANGED <<identity, race, kind, authorization_header_value,
                   _oauth_persistence, store, local, request_headers, injects,
                   headersAtCall, memAtCall, prevCalls, installed>>

\* mutant of InitialBranch: a fresh pair is acquired whatever was read
InitialBranch_AlwaysAcquire(c) ==
    /\ pc[c] = "initial_branch"
    /\ Goto(c, "initial_acquire")
    /\ UNCHANGED <<identity, race, kind, authorization_header_value,
                   _oauth_persistence, tokens, store, local, request_headers,
                   injects, headersAtCall, memAtCall, history, prevCalls,
                   installed>>

\* mutant of InitialBranch: a complete stored pair is used without the check
InitialBranch_NoCheck(c) ==
    /\ pc[c] = "initial_branch"
    /\ IF Truthy(_access_token) /\ Truthy(_refresh_token)
       THEN ReturnToCaller(c)
       ELSE Goto(c, "initial_acquire")
    /\ UNCHANGED <<identity, race, kind, authorization_header_value,
                   _oauth_persistence, tokens, store, local, request_headers,
                   injects, headersAtCall, memAtCall, history, prevCalls,
                   installed>>

\* _initial_get_token, line 99: refresh a complete pair, else acquire
InitialBranch(c) ==
    /\ pc[c] = "initial_branch"
    /\ IF Truthy(_access_token) /\ Truthy(_refresh_token)
       THEN Goto(c, "update_check")
       ELSE Goto(c, "initial_acquire")
    /\ UNCHANGED <<identity, race, kind, authorization_header_value,
                   _oauth_persistence, tokens, store, local, request_headers,
                   injects, headersAtCall, memAtCall, history, prevCalls,
                   installed>>

\* _initial_get_token, lines 102-104: get_tokens(hostname, client_id, scope)
InitialAcquire(c) ==
    /\ pc[c] = "initial_acquire"
    /\ \/ /\ Logged(c, Call("get_tokens", <<_hostname, _client_id, _scopes_as_str>>,
                          FALSE, <<>>))
          /\ ExceptInitialGetToken(c)
          /\ UNCHANGED local
       \/ \E access_token \in AccessTokens, refresh_token \in RefreshTokens :
             /\ Logged(c, Call("get_tokens", <<_hostname, _client_id, _scopes_as_str>>,
                             TRUE, <<access_token, refresh_token>>))
             /\ local' = [local EXCEPT ![c] = <<access_token, refresh_token>>]
             /\ Goto(c, "initial_adopt")
    /\ UNCHANGED <<identity, race, kind, authorization_header_value,
                   _oauth_persistence, tokens, store, request_headers,
                   injects, headersAtCall, memAtCall, prevCalls, installed>>

\* mutant of InitialAdopt: only the fields that are not set are filled in
InitialAdopt_KeepSet(c) ==
    /\ pc[c] = "initial_adopt"
    /\ _access_token' = IF Truthy(_access_token) THEN _access_token ELSE local[c][1]
    /\ _refresh_token' = IF Truthy(_refresh_token) THEN _refresh_token ELSE local[c][2]
    /\ origin' = "acquire"
    /\ Goto(c, "initial_persist")
    /\ UNCHANGED <<identity, race, kind, authorization_header_value,
                   _oauth_persistence, store, local, request_headers, injects,
                   headersAtCall, memAtCall, history, prevCalls, installed>>

\* _initial_get_token, lines 105-106
InitialAdopt(c) ==
    /\ pc[c] = "initial_adopt"
    /\ _access_token' = local[c][1]
    /\ _refresh_token' = local[c][2]
    /\ origin' = "acquire"
    /\ Goto(c, "initial_persist")
    /\ UNCHANGED <<identity, race, kind, authorization_header_value,
                   _oauth_persistence, store, local, request_headers, injects,
                   headersAtCall, memAtCall, history, prevCalls, installed>>

\* mutant of InitialPersist: the acquired pair is not persisted
InitialPersist_Skip(c) ==
    /\ pc[c] = "initial_persist"
    /\ ReturnToCaller(c)
    /\ UNCHANGED <<identity, race, kind, authorization_header_value,
                   _oauth_persistence, tokens, store, local, request_headers,
                   injects, headersAtCall, memAtCall, history, prevCalls,
                   installed>>

\* mutant of InitialPersist: the persist is guarded as at line 125
InitialPersist_Guarded(c) ==
    /\ pc[c] = "initial_persist"
    /\ IF _oauth_persistence
       THEN LET token == OAuthToken(local[c][1], local[c][2]) IN
            \/ /\ Logged(c, Call("persist", token, FALSE, <<>>))
               /\ ExceptInitialGetToken(c)
               /\ UNCHANGED store
            \/ /\ Logged(c, Call("persist", token, TRUE, <<>>))
               /\ store' = <<token>>
               /\ ReturnToCaller(c)
       ELSE /\ ReturnToCaller(c)
            /\ UNCHANGED <<store, history>>
    /\ UNCHANGED <<identity, race, kind, authorization_header_value,
                   _oauth_persistence, tokens, local, request_headers,
                   injects, headersAtCall, memAtCall, prevCalls, installed>>

\* _initial_get_token, line 107: persist the acquired pair; without a
\* persistence object the attribute access raises before any call
InitialPersist(c) ==
    /\ pc[c] = "initial_persist"
    /\ IF _oauth_persistence
       THEN LET token == OAuthToken(local[c][1], local[c][2]) IN
            \/ /\ Logged(c, Call("persist", token, FALSE, <<>>))
               /\ ExceptInitialGetToken(c)
               /\ UNCHANGED store
            \/ /\ Logged(c, Call("persist", token, TRUE, <<>>))
               /\ store' = <<token>>
               /\ ReturnToCaller(c)
       ELSE /\ ExceptInitialGetToken(c)
            /\ UNCHANGED <<store, history>>
    /\ UNCHANGED <<identity, race, kind, authorization_header_value,
                   _oauth_persistence, tokens, local, request_headers,
                   injects, headersAtCall, memAtCall, prevCalls, installed>>

\* ------------------------- DatabricksOAuthProvider._update_token_if_expired
\* mutant of UpdateCheck: the returned pair is adopted whatever the flag says
UpdateCheck_AdoptAlways(c) ==
    /\ pc[c] = "update_check"
    /\ checkedAt' = [checkedAt EXCEPT ![c] = adoptions]
    /\ \/ /\ Logged(c, Call("check_and_refresh", Pair, FALSE, <<>>))
          /\ ExceptUpdateToken(c)
          /\ UNCHANGED local
       \/ \E fresh_access_token \in AccessTokens, fresh_refresh_token \in RefreshTokens,
             is_refreshed \in BOOLEAN :
             LET ret == <<fresh_access_token, fresh_refresh_token, is_refreshed>> IN
             /\ Logged(c, Call("check_and_refresh", Pair, TRUE, ret))
             /\ local' = [local EXCEPT ![c] = ret]
             /\ Goto(c, "update_adopt_access")
    /\ UNCHANGED <<identity, adoptions, overlap, kind,
                   authorization_header_value, _oauth_persistence, tokens,
                   store, request_headers, injects, headersAtCall, memAtCall,
                   prevCalls, installed>>

\* lines 114-120: check_and_refresh_access_token with the current pair, the
\* pair it returns drawn from the given set
UpdateCheckWith(c, grants) ==
    /\ pc[c] = "update_check"
    /\ checkedAt' = [checkedAt EXCEPT ![c] = adoptions]
    /\ \/ /\ Logged(c, Call("check_and_refresh", Pair, FALSE, <<>>))
          /\ ExceptUpdateToken(c)
          /\ UNCHANGED local
       \/ \E grant \in grants, is_refreshed \in BOOLEAN :
             LET fresh_access_token == grant[1]
                 fresh_refresh_token == grant[2]
                 ret == <<fresh_access_token, fresh_refresh_token, is_refreshed>>
             IN
             /\ Logged(c, Call("check_and_refresh", Pair, TRUE, ret))
             /\ local' = [local EXCEPT ![c] = ret]
             /\ IF ~is_refreshed
                THEN ReturnFromUpdate(c)
                ELSE Goto(c, "update_adopt_access")
    /\ UNCHANGED <<identity, adoptions, overlap, kind,
                   authorization_header_value, _oauth_persistence, tokens,
                   store, request_headers, injects, headersAtCall, memAtCall,
                   prevCalls, installed>>

\* lines 114-120, the exchange returning any access and refresh token
UpdateCheck(c) == UpdateCheckWith(c, AccessTokens \X RefreshTokens)

\* mutant of UpdateAdoptAccess: the fresh access token is not stored
UpdateAdoptAccess_Skip(c) ==
    /\ pc[c] = "update_adopt_access"
    /\ origin' = "refresh"
    /\ Goto(c, "update_adopt_refresh")
    /\ UNCHANGED <<identity, race, kind, authorization_header_value,
                   _oauth_persistence, _access_token, _refresh_token, store,
                   local, request_headers, injects, headersAtCall, memAtCall,
                   history, prevCalls, installed>>

\* line 122
UpdateAdoptAccess(c) ==
    /\ pc[c] = "update_adopt_access"
    /\ _access_token' = local[c][1]
    /\ origin' = "refresh"
    /\ adoptions' = adoptions + 1
    /\ Goto(c, "update_adopt_refresh")
    /\ UNCHANGED <<identity, checkedAt, overlap, kind,
                   authorization_header_value, _oauth_persistence,
                   _refresh_token, store, local, request_headers, injects,
                   headersAtCall, memAtCall, history, prevCalls, installed>>

\* line 123
UpdateAdoptRefresh(c) ==
    /\ pc[c] = "update_adopt_refresh"
    /\ _refresh_token' = local[c][2]
    /\ Goto(c, "update_persist")
    /\ UNCHANGED <<identity, race, kind, authorization_header_value,
                   _oauth_persistence, _access_token, origin, store, local,
                   request_headers, injects, headersAtCall, memAtCall,
                   history, prevCalls, installed>>

\* mutant of UpdatePersist: a persist that raised is tried once more
UpdatePersist_Retry(c) ==
    /\ pc[c] = "update_persist"
    /\ IF _oauth_persistence
       THEN LET token == OAuthToken(_access_token, _refresh_token)
                failed == Call("persist", token, FALSE, <<>>)
                passed == Call("persist", token, TRUE, <<>>)
                twice(log) == Append(Append(log, failed), passed)
            IN
            \/ /\ IF op[c] = "ctor"
                  THEN ctorCalls' = twice(ctorCalls) /\ UNCHANGED calls
                  ELSE calls' = [calls EXCEPT ![c] = twice(@)] /\ UNCHANGED ctorCalls
               /\ store' = <<token>>
               /\ ReturnFromUpdate(c)
            \/ /\ Logged(c, passed)
               /\ store' = <<token>>
               /\ ReturnFromUpdate(c)
       ELSE /\ ReturnFromUpdate(c)
            /\ UNCHANGED <<store, history>>
    /\ UNCHANGED <<identity, race, kind, authorization_header_value,
                   _oauth_persistence, tokens, local, request_headers,
                   injects, headersAtCall, memAtCall, prevCalls, installed>>

\* lines 125-127: persist the pair now in memory, when there is a store
UpdatePersist(c) ==
    /\ pc[c] = "update_persist"
    /\ IF _oauth_persistence
       THEN LET token == OAuthToken(_access_token, _refresh_token) IN
            \/ /\ Logged(c, Call("persist", token, FALSE, <<>>))
               /\ ExceptUpdateToken(c)
               /\ UNCHANGED store
            \/ /\ Logged(c, Call("persist", token, TRUE, <<>>))
               /\ store' = <<token>>
               /\ ReturnFromUpdate(c)
       ELSE /\ ReturnFromUpdate(c)
            /\ UNCHANGED <<store, history>>
    /\ UNCHANGED <<identity, race, kind, authorization_header_value,
                   _oauth_persistence, tokens, local, request_headers,
                   injects, headersAtCall, memAtCall, prevCalls, installed>>

\* ------------------------------------ DatabricksOAuthProvider.add_headers
\* line 82, after _update_token_if_expired returned
SetBearerHeader(c) ==
    /\ pc[c] = "set_header"
    /\ request_headers' =
          [request_headers EXCEPT
              ![c] = SetItem(@, "Authorization", "Bearer " \o Str(_access_token))]
    /\ installed' = [installed EXCEPT ![c] = origin]
    /\ ReturnToCaller(c)
    /\ UNCHANGED <<identity, race, kind, authorization_header_value,
                   _oauth_persistence, tokens, store, local, injects,
                   headersAtCall, memAtCall, history, prevCalls>>

\* -------------------------------------------------------- specification
Next ==
    \/ ConstructAccessToken
    \/ ConstructBasic
    \/ \E c \in SingleCaller :
          \/ ConstructOAuth(c)
          \/ InitialRead(c)
          \/ InitialBranch(c)
          \/ InitialAcquire(c)
          \/ InitialAdopt(c)
          \/ InitialPersist(c)
          \/ UpdateCheck(c)
          \/ UpdateAdoptAccess(c)
          \/ UpdateAdoptRefresh(c)
          \/ UpdatePersist(c)
          \/ CallAddHeaders(c)
          \/ SetCachedHeader(c)
          \/ SetBearerHeader(c)

Spec == Init /\ [][Next]_vars

\* construction up to the call of _initial_get_token, over all host names
NextHost == \E c \in SingleCaller : ConstructOAuthWith(c, Hostnames, {DefaultScopes})

SpecHost == Init /\ [][NextHost]_vars

\* construction of the OAuth provider, over all scope lists
NextScopes ==
    \E c \in SingleCaller :
        \/ ConstructOAuthWith(c, {DefaultHost}, ScopeLists)
        \/ InitialRead(c)
        \/ InitialBranch(c)
        \/ InitialAcquire(c)
        \/ InitialAdopt(c)
        \/ InitialPersist(c)
        \/ UpdateCheck(c)
        \/ UpdateAdoptAccess(c)
        \/ UpdateAdoptRefresh(c)
        \/ UpdatePersist(c)

SpecScopes == Init /\ [][NextScopes]_vars

\* one caller constructs the OAuth provider; then every caller of Callers
\* may be inside add_headers at once, their statements interleaved
NextConcurrent ==
    \/ \E c \in SingleCaller :
          \/ ConstructOAuth(c)
          \/ InitialRead(c)
          \/ InitialBranch(c)
          \/ InitialAcquire(c)
          \/ InitialAdopt(c)
          \/ InitialPersist(c)
    \/ \E c \in Callers :
          \/ CallAddHeadersWith(c, {EmptyDict})
          \/ UpdateCheckWith(c, ConcurrentGrants)
          \/ UpdateAdoptAccess(c)
          \/ UpdateAdoptRefresh(c)
          \/ UpdatePersist(c)
          \/ SetBearerHeader(c)

\* the token store holds a complete pair when the provider is constructed
InitConcurrent == Init /\ store = <<OAuthToken("a1", "r1")>>

SpecConcurrent == InitConcurrent /\ [][NextConcurrent]_vars

\* ------------------------------------------------------------ type check
TypeOK ==
    /\ kind \in {"none", "token", "basic", "oauth"}
    /\ phase \in {"Uninitialized", "Constructing", "Ready", "Failed"}
    /\ _oauth_persistence \in BOOLEAN
    /\ injects \in 0..MaxInjects
    /\ \A c \in Callers : outcome[c] \in {"none", "running", "returned", "raised"}

\* ------------------------------------------------- vocabulary of the claims
\* how many calls of fn a call record holds
CountCalls(log, fn) == Cardinality({i \in 1..Len(log) : log[i].fn = fn})

\* some call of the record raised
SomeCallFailed(log) == \E i \in 1..Len(log) : ~log[i].ok

\* no call follows a call that raised
NoCallAfterFailure(log) == \A i \in 1..(Len(log) - 1) : log[i].ok

\* caller c has left an add_headers call on the OAuth provider
InjectOver(c) == kind = "oauth" /\ op[c] = "inject" /\ pc[c] = "idle"

\* the check of caller c's add_headers returned, with this refreshed flag
CheckReported(log, flag) ==
    /\ Len(log) >= 1
    /\ log[1].fn = "check_and_refresh"
    /\ log[1].ok
    /\ log[1].ret[3] = flag

\* the pair a returned check handed back
Reported(rec) == <<rec.ret[1], rec.ret[2]>>

\* the header dict of caller c holds this Authorization value
Authorization(c, value) ==
    /\ "Authorization" \in DOMAIN request_headers[c]
    /\ request_headers[c]["Authorization"] = value

\* construction read this from the token store
CtorRead(content) ==
    /\ Len(ctorCalls) >= 1
    /\ ctorCalls[1] = Call("read", <<>>, TRUE, content)

\* construction read a pair with both fields set from the token store
CtorReadComplete ==
    /\ Len(ctorCalls) >= 1
    /\ ctorCalls[1].fn = "read"
    /\ ctorCalls[1].ok
    /\ ctorCalls[1].ret # <<>>
    /\ Truthy(ctorCalls[1].ret[1].access_token)
    /\ Truthy(ctorCalls[1].ret[1].refresh_token)

\* the pair construction read from the token store
CtorStoredPair ==
    <<ctorCalls[1].ret[1].access_token, ctorCalls[1].ret[1].refresh_token>>

\* ---------------------------------------------------------------- claims
\* C1: every OAuth add_headers call that fails in the expiry-check-and-refresh
\* step (check_and_refresh raised, or persist raised after a reported refresh)
\* leaves the in-memory (access_token, refresh_token) pair as it was before
\* the call.
C1_FailedInjectKeepsPair ==
    \A c \in Callers :
        InjectOver(c) /\ SomeCallFailed(calls[c]) => Pair = memAtCall[c]

\* C2: when check_and_refresh reports refreshed=true with a new pair during an
\* OAuth add_headers, the in-memory pair becomes the new pair, exactly one
\* persist call is made in that add_headers and its argument is the new pair,
\* and the Authorization header set by that add_headers, and by the next one
\* when its check reports no refresh, is "Bearer <new access token>".
C2_RefreshAdoptedPersistedOnce ==
    \A c \in Callers :
        /\ InjectOver(c) /\ CheckReported(calls[c], TRUE) =>
              LET new == Reported(calls[c][1]) IN
              /\ Pair = new
              /\ CountCalls(calls[c], "persist") = 1
              /\ Len(calls[c]) = 2
              /\ calls[c][2].fn = "persist"
              /\ calls[c][2].arg = OAuthToken(new[1], new[2])
              /\ outcome[c] = "returned" => Authorization(c, "Bearer " \o new[1])
        /\ (/\ InjectOver(c)
            /\ CheckReported(calls[c], FALSE)
            /\ CheckReported(prevCalls, TRUE)) =>
              Authorization(c, "Bearer " \o Reported(prevCalls[1])[1])

\* C2 witness: an add_headers that refreshed to a different pair was followed
\* by one whose check reported no refresh
C2_Witness ==
    \E c \in Callers :
        /\ InjectOver(c)
        /\ outcome[c] = "returned"
        /\ CheckReported(calls[c], FALSE)
        /\ CheckReported(prevCalls, TRUE)
        /\ Len(prevCalls) = 2
        /\ prevCalls[2].ok
        /\ prevCalls[1].arg = <<"a1", "r1">>
        /\ Reported(prevCalls[1]) = <<"a2", "r2">>
        /\ Authorization(c, "Bearer a2")

\* C3: when check_and_refresh reports refreshed=false, the in-memory pair is
\* unchanged whatever pair came back with the flag, no persist call occurs,
\* and add_headers sets Authorization to "Bearer <unchanged access token>".
C3_NoRefreshLeavesPair ==
    \A c \in Callers :
        InjectOver(c) /\ CheckReported(calls[c], FALSE) =>
            /\ Pair = memAtCall[c]
            /\ calls[c][1].arg = memAtCall[c]
            /\ Len(calls[c]) = 1
            /\ outcome[c] = "returned"
            /\ Authorization(c, "Bearer " \o Str(memAtCall[c][1]))

\* C3 witness: the check reported no refresh but handed back another pair
C3_Witness ==
    \E c \in Callers :
        /\ InjectOver(c)
        /\ CheckReported(calls[c], FALSE)
        /\ memAtCall[c] = <<"a1", "r1">>
        /\ Reported(calls[c][1]) = <<"a2", "r2">>
        /\ Authorization(c, "Bearer a1")

\* C4: when the token store is empty at construction (read returns no pair),
\* construction makes exactly one acquire call and no check_and_refresh call
\* and persists exactly the acquired pair with exactly one persist call, and
\* the first add_headers, its check reporting no refresh, sets Authorization
\* to "Bearer <acquired access token>".
C4_EmptyStoreAcquiresOnce ==
    CtorRead(<<>>) =>
        /\ CountCalls(ctorCalls, "check_and_refresh") = 0
        /\ CountCalls(ctorCalls, "get_tokens") <= 1
        /\ phase = "Ready" =>
              /\ Len(ctorCalls) = 3
              /\ ctorCalls[2].fn = "get_tokens"
              /\ ctorCalls[2].ok
              /\ ctorCalls[3] =
                    Call("persist",
                         OAuthToken(ctorCalls[2].ret[1], ctorCalls[2].ret[2]),
                         TRUE, <<>>)
              /\ injects = 0 =>
                    /\ Pair = ctorCalls[2].ret
                    /\ store = <<OAuthToken(ctorCalls[2].ret[1], ctorCalls[2].ret[2])>>
              /\ \A c \in Callers :
                    InjectOver(c) /\ injects = 1 /\ CheckReported(calls[c], FALSE) =>
                        Authorization(c, "Bearer " \o ctorCalls[2].ret[1])

\* C4 witness: the first add_headers after an acquisition on an empty store
C4_Witness ==
    \E c \in Callers :
        /\ CtorRead(<<>>)
        /\ phase = "Ready"
        /\ ctorCalls[2].ret = <<"a2", "r1">>
        /\ InjectOver(c)
        /\ injects = 1
        /\ CheckReported(calls[c], FALSE)
        /\ Authorization(c, "Bearer a2")

\* C5: when the token store holds a complete, non-expired pair at
\* construction, construction makes no acquire call, exactly one
\* check_and_refresh call with that pair and no persist call, and the
\* in-memory pair equals the stored pair when construction returns.
C5_StoredPairReused ==
    CtorReadComplete =>
        /\ CountCalls(ctorCalls, "get_tokens") = 0
        /\ CountCalls(ctorCalls, "check_and_refresh") <= 1
        /\ phase = "Ready" =>
              /\ Len(ctorCalls) >= 2
              /\ ctorCalls[2].fn = "check_and_refresh"
              /\ ctorCalls[2].arg = CtorStoredPair
        /\ phase = "Ready" /\ CheckReported(Tail(ctorCalls), FALSE) =>
              /\ Len(ctorCalls) = 2
              /\ injects = 0 =>
                    /\ Pair = CtorStoredPair
                    /\ store = ctorCalls[1].ret

\* C5 witness: construction returned after a check that reported no refresh
C5_Witness ==
    /\ CtorReadComplete
    /\ phase = "Ready"
    /\ injects = 0
    /\ CheckReported(Tail(ctorCalls), FALSE)
    /\ Pair = <<"a1", "r1">>

\* C6: when the token store holds a complete but expired pair at
\* construction, the refresh happens during construction: before it returns,
\* check_and_refresh has been called with the stored pair, the refreshed pair
\* has replaced it in memory and has been persisted, no acquire call was
\* made, and no add_headers ever installs the stale stored access token.
C6_StalePairRefreshedAtConstruction ==
    CtorReadComplete /\ phase = "Ready" =>
        /\ Len(ctorCalls) >= 2
        /\ ctorCalls[2].fn = "check_and_refresh"
        /\ ctorCalls[2].arg = CtorStoredPair
        /\ CheckReported(Tail(ctorCalls), TRUE) =>
              LET new == Reported(ctorCalls[2]) IN
              /\ Len(ctorCalls) = 3
              /\ ctorCalls[3] = Call("persist", OAuthToken(new[1], new[2]), TRUE, <<>>)
              /\ CountCalls(ctorCalls, "get_tokens") = 0
              /\ injects = 0 => Pair = new /\ store = <<OAuthToken(new[1], new[2])>>
              /\ origin = "refresh"
              /\ \A c \in Callers : installed[c] \in {"none", "refresh"}

\* C6 witness: after a refresh at construction an add_headers installed the
\* refreshed token
C6_Witness ==
    \E c \in Callers :
        /\ CtorReadComplete
        /\ phase = "Ready"
        /\ CheckReported(Tail(ctorCalls), TRUE)
        /\ Reported(ctorCalls[2]) = <<"a2", "r2">>
        /\ InjectOver(c)
        /\ CheckReported(calls[c], FALSE)
        /\ installed[c] = "refresh"
        /\ Authorization(c, "Bearer a2")

\* C7: any failure during construction of the OAuth provider (store read,
\* check_and_refresh, acquire or persist raising) aborts construction and
\* propagates to the caller: no instance is returned and no add_headers ever
\* runs on it; when acquire raises, no persist call has occurred.
C7_FailedConstructionYieldsNoInstance ==
    /\ SomeCallFailed(ctorCalls) => phase = "Failed"
    /\ \A c \in Callers :
          op[c] = "ctor" /\ SomeCallFailed(ctorCalls) =>
              pc[c] = "idle" /\ outcome[c] = "raised"
    /\ phase = "Failed" =>
          /\ injects = 0
          /\ \A c \in Callers :
                /\ op[c] # "inject"
                /\ request_headers[c] = EmptyDict
                /\ installed[c] = "none"
    /\ (\E i \in 1..Len(ctorCalls) :
            ctorCalls[i].fn = "get_tokens" /\ ~ctorCalls[i].ok) =>
          CountCalls(ctorCalls, "persist") = 0

\* C7 witness: acquire raised on an empty store and construction failed
C7_Witness ==
    /\ phase = "Failed"
    /\ Len(ctorCalls) = 2
    /\ ctorCalls[1] = Call("read", <<>>, TRUE, <<>>)
    /\ ctorCalls[2].fn = "get_tokens"
    /\ ~ctorCalls[2].ok

\* C8: when an OAuth add_headers call fails (check_and_refresh or persist
\* raised), the caller's header dict is left exactly as it was before the
\* call: the Authorization entry is neither set nor overwritten.
C8_FailedInjectLeavesHeaders ==
    \A c \in Callers :
        InjectOver(c) /\ SomeCallFailed(calls[c]) =>
            /\ outcome[c] = "raised"
            /\ request_headers[c] = headersAtCall[c]

\* C8 witness: persist raised after a refresh, on a dict that held an
\* Authorization entry
C8_Witness ==
    \E c \in Callers :
        /\ InjectOver(c)
        /\ Len(calls[c]) = 2
        /\ calls[c][2].fn = "persist"
        /\ ~calls[c][2].ok
        /\ Authorization(c, "Bearer stale")

\* C9: no retries. Every OAuth add_headers makes exactly one
\* check_and_refresh call, at most one persist call and no acquire or store
\* read; construction makes at most one store read, one acquire, one
\* check_and_refresh and one persist; and after the first call that raised,
\* the operation makes no further exchange or store call.
C9_NoRetries ==
    /\ \A c \in Callers :
          kind = "oauth" /\ op[c] = "inject" =>
              /\ CountCalls(calls[c], "check_and_refresh") =
                    (IF pc[c] = "update_check" THEN 0 ELSE 1)
              /\ CountCalls(calls[c], "persist") <= 1
              /\ CountCalls(calls[c], "get_tokens") = 0
              /\ CountCalls(calls[c], "read") = 0
              /\ NoCallAfterFailure(calls[c])
    /\ CountCalls(ctorCalls, "read") <= 1
    /\ CountCalls(ctorCalls, "get_tokens") <= 1
    /\ CountCalls(ctorCalls, "check_and_refresh") <= 1
    /\ CountCalls(ctorCalls, "persist") <= 1
    /\ NoCallAfterFailure(ctorCalls)

\* C9 witness: an add_headers whose persist raised after a construction
\* that refreshed and persisted
C9_Witness ==
    \E c \in Callers :
        /\ InjectOver(c)
        /\ outcome[c] = "raised"
        /\ Len(calls[c]) = 2
        /\ ~calls[c][2].ok
        /\ Len(ctorCalls) = 3
        /\ ctorCalls[2].fn = "check_and_refresh"

\* C10: for all three providers, add_headers changes only the Authorization
\* entry of the caller's dict: every other key present before the call keeps
\* its value, no other key is added, and the value set does not depend on
\* what the dict held before.
C10_OnlyAuthorizationChanges ==
    \A c \in Callers :
        op[c] = "inject" =>
            /\ \A k \in (DOMAIN headersAtCall[c]) \ {"Authorization"} :
                  /\ k \in DOMAIN request_headers[c]
                  /\ request_headers[c][k] = headersAtCall[c][k]
            /\ (DOMAIN request_headers[c]) \subseteq
                  ((DOMAIN headersAtCall[c]) \cup {"Authorization"})
            /\ pc[c] = "idle" /\ outcome[c] = "returned" =>
                  Authorization(c, IF kind = "oauth"
                                   THEN "Bearer " \o Str(_access_token)
                                   ELSE authorization_header_value)

\* C10 witness: the basic provider of "u" and "pw" replaced the Authorization
\* entry of a dict that also held Accept
C10_Witness ==
    \E c \in Callers :
        /\ kind = "basic"
        /\ op[c] = "inject"
        /\ pc[c] = "idle"
        /\ headersAtCall[c] =
              [k \in {"Authorization", "Accept"} |->
                  IF k = "Authorization" THEN "Basic b2xk" ELSE "text/plain"]
        /\ request_headers[c] =
              [k \in {"Authorization", "Accept"} |->
                  IF k = "Authorization" THEN "Basic dTpwdw==" ELSE "text/plain"]

\* exactly one field of the pair is set
HalfSet(pair) == Truthy(pair[1]) # Truthy(pair[2])

\* the check_and_refresh calls of a call record are made with a pair that has
\* both fields set or neither
ChecksOnWholePairs(log) ==
    \A i \in 1..Len(log) :
        log[i].fn = "check_and_refresh" => ~HalfSet(log[i].arg)

\* C11: in every reachable state of a constructed OAuth provider, whatever
\* pairs the store or the exchange return, check_and_refresh is never invoked
\* while the in-memory pair has only one of access token / refresh token set;
\* a provider holding an incomplete pair acquires afresh instead.
C11_NoCheckOnHalfPair ==
    /\ ChecksOnWholePairs(ctorCalls)
    /\ ChecksOnWholePairs(prevCalls)
    /\ \A c \in Callers : ChecksOnWholePairs(calls[c])

\* the host name starts with a scheme: letters followed by "://"
HasSchemePrefix(h) ==
    \E i \in 2..(Len(h) - 2) :
        /\ SubSeq(h, i, i + 2) = <<":", "/", "/">>
        /\ \A j \in 1..(i - 1) : h[j] \notin {":", "/", "."}

\* C12: host normalization prefixes "https://" exactly when the input host
\* has no scheme prefix (a host that carries any scheme is not prefixed) and
\* appends "/" exactly when the input has no trailing slash; "host.com" and
\* "https://host.com" both give "https://host.com/", which is left unchanged.
C12_NormalizedHost ==
    kind = "oauth" =>
        LET h == ctorArgs.hostname IN
        _hostname = (IF HasSchemePrefix(h) THEN <<>> ELSE HttpsScheme) \o h
                       \o (IF h # <<>> /\ h[Len(h)] = "/" THEN <<>> ELSE <<"/">>)

\* a string has this character at some position
HasChar(s, ch) == \E i \in 1..Len(s) : s[i] = ch

\* the first position of a character the string has
FirstChar(s, ch) == CHOOSE i \in 1..Len(s) : s[i] = ch /\ \A j \in 1..(i - 1) : s[j] # ch

RECURSIVE SplitAt(_, _)
\* the pieces of a string between the occurrences of a character
SplitAt(s, ch) ==
    IF ~HasChar(s, ch) THEN <<s>>
    ELSE <<SubSeq(s, 1, FirstChar(s, ch) - 1)>>
         \o SplitAt(SubSeq(s, FirstChar(s, ch) + 1, Len(s)), ch)

\* C13: for every caller-supplied scope list, the scope string passed to
\* acquire is the list's elements in their original order with exactly one
\* space between consecutive elements, nothing before the first and nothing
\* after the last; ["read", "write"] on an empty store gives "read write".
C13_ScopesJoined ==
    \A i \in 1..Len(ctorCalls) :
        ctorCalls[i].fn = "get_tokens" =>
            LET scope == ctorCalls[i].arg[3]
                scopes == ctorArgs.scopes
            IN  /\ scopes = <<>> => scope = <<>>
                /\ scopes # <<>> => SplitAt(scope, " ") = scopes
                /\ scopes = DefaultScopes =>
                      scope = <<"r", "e", "a", "d", " ", "w", "r", "i", "t", "e">>
                /\ ctorCalls[i].arg[2] = ctorArgs.client_id

\* C13 witness: on an empty store acquire received "write read" for
\* ["write", "read"]
C13_Witness ==
    /\ CtorRead(<<>>)
    /\ Len(ctorCalls) >= 2
    /\ ctorCalls[2].fn = "get_tokens"
    /\ ctorArgs.scopes = <<<<"w", "r", "i", "t", "e">>, <<"r", "e", "a", "d">>>>
    /\ ctorCalls[2].arg[3] = <<"w", "r", "i", "t", "e", " ", "r", "e", "a", "d">>

\* "Basic " and the standard base64 of "username:password" in UTF-8, as
\* Python's base64 module computes it, for every user name and password of
\* Credentials
PythonBasicHeaders ==
    {
     <<<<>>, <<>>, "Basic Og==">>,
     <<<<>>, <<117>>, "Basic OnU=">>,
     <<<<>>, <<112, 119>>, "Basic OnB3">>,
     <<<<>>, <<233>>, "Basic OsOp">>,
     <<<<>>, <<97, 58, 98>>, "Basic OmE6Yg==">>,
     <<<<117>>, <<>>, "Basic dTo=">>,
     <<<<117>>, <<117>>, "Basic dTp1">>,
     <<<<117>>, <<112, 119>>, "Basic dTpwdw==">>,
     <<<<117>>, <<233>>, "Basic dTrDqQ==">>,
     <<<<117>>, <<97, 58, 98>>, "Basic dTphOmI=">>,
     <<<<112, 119>>, <<>>, "Basic cHc6">>,
     <<<<112, 119>>, <<117>>, "Basic cHc6dQ==">>,
     <<<<112, 119>>, <<112, 119>>, "Basic cHc6cHc=">>,
     <<<<112, 119>>, <<233>>, "Basic cHc6w6k=">>,
     <<<<112, 119>>, <<97, 58, 98>>, "Basic cHc6YTpi">>,
     <<<<233>>, <<>>, "Basic w6k6">>,
     <<<<233>>, <<117>>, "Basic w6k6dQ==">>,
     <<<<233>>, <<112, 119>>, "Basic w6k6cHc=">>,
     <<<<233>>, <<233>>, "Basic w6k6w6k=">>,
     <<<<233>>, <<97, 58, 98>>, "Basic w6k6YTpi">>,
     <<<<97, 58, 98>>, <<>>, "Basic YTpiOg==">>,
     <<<<97, 58, 98>>, <<117>>, "Basic YTpiOnU=">>,
     <<<<97, 58, 98>>, <<112, 119>>, "Basic YTpiOnB3">>,
     <<<<97, 58, 98>>, <<233>>, "Basic YTpiOsOp">>,
     <<<<97, 58, 98>>, <<97, 58, 98>>, "Basic YTpiOmE6Yg==">>
    }

\* the one Authorization value a stateless provider was constructed for
FixedAtConstruction(value) ==
    IF kind = "token"
    THEN value = "Bearer " \o ctorArgs.access_token
    ELSE <<ctorArgs.username, ctorArgs.password, value>> \in PythonBasicHeaders

\* C14: for the stateless providers every add_headers call, however many
\* preceded it and whatever the dict held, sets Authorization to the one
\* value fixed at construction ("Bearer <token>", or "Basic " and the
\* base64 of "username:password") and never fails; repeated calls set
\* byte-identical values.
C14_StatelessHeaderFixed ==
    kind \in {"token", "basic"} =>
        /\ FixedAtConstruction(authorization_header_value)
        /\ \A c \in Callers :
              op[c] = "inject" =>
                  /\ outcome[c] # "raised"
                  /\ Len(calls[c]) = 0
                  /\ pc[c] = "idle" =>
                        /\ outcome[c] = "returned"
                        /\ "Authorization" \in DOMAIN request_headers[c]
                        /\ FixedAtConstruction(request_headers[c]["Authorization"])

\* C14 witness: the second add_headers of the basic provider of "é" and
\* "a:b" overwrote a bearer entry
C14_Witness ==
    \E c \in Callers :
        /\ kind = "basic"
        /\ ctorArgs = [username |-> <<233>>, password |-> <<97, 58, 98>>]
        /\ injects = 2
        /\ op[c] = "inject"
        /\ pc[c] = "idle"
        /\ headersAtCall[c] = [k \in {"Authorization"} |-> "Bearer stale"]
        /\ request_headers[c] = [k \in {"Authorization"} |-> "Basic w6k6YTpi"]

\* C15: a failed add_headers does not disable the OAuth provider. After any
\* number of failed calls the provider is still Ready and can be called
\* again; the next add_headers calls check_and_refresh with the pair held in
\* memory, and when that call and any persist it leads to succeed, the
\* add_headers succeeds and installs a bearer token.
C15_FailedInjectNotFatal ==
    \A c \in SingleCaller :
        /\ InjectOver(c) /\ SomeCallFailed(calls[c]) =>
              /\ phase = "Ready"
              /\ injects < MaxInjects => ENABLED CallAddHeaders(c)
        /\ (/\ kind = "oauth"
            /\ op[c] = "inject"
            /\ SomeCallFailed(prevCalls)) =>
              /\ pc[c] = "update_check" => Pair = memAtCall[c]
              /\ Len(calls[c]) >= 1 =>
                    /\ calls[c][1].fn = "check_and_refresh"
                    /\ calls[c][1].arg = memAtCall[c]
              /\ pc[c] = "idle" /\ ~SomeCallFailed(calls[c]) =>
                    /\ outcome[c] = "returned"
                    /\ Authorization(c, "Bearer " \o Str(_access_token))

\* C15 witness: an add_headers returned after the one before it had failed
\* in check_and_refresh
C15_Witness ==
    \E c \in SingleCaller :
        /\ InjectOver(c)
        /\ outcome[c] = "returned"
        /\ Len(prevCalls) = 1
        /\ ~prevCalls[1].ok
        /\ calls[c][1].arg = <<"a1", "r1">>
        /\ Authorization(c, "Bearer a1")

\* C16: under a single caller, over any sequence of construction and
\* add_headers calls in which store and exchange calls may fail, whenever an
\* add_headers succeeds the access token it installs belongs to the pair the
\* token store currently holds (the pair last read from it or successfully
\* persisted to it).
C16_InstalledTokenIsPersisted ==
    \A c \in SingleCaller :
        InjectOver(c) /\ outcome[c] = "returned" =>
            /\ store = <<OAuthToken(_access_token, _refresh_token)>>
            /\ Authorization(c, "Bearer " \o Str(store[1].access_token))

\* construction read a pair with exactly one field set from the token store
CtorReadHalf ==
    /\ Len(ctorCalls) >= 1
    /\ ctorCalls[1].fn = "read"
    /\ ctorCalls[1].ok
    /\ ctorCalls[1].ret # <<>>
    /\ HalfSet(CtorStoredPair)

\* C17: when the token store returns a pair with only one of access token /
\* refresh token set at construction, it is treated as no persisted pair:
\* construction makes exactly one acquire call and no check_and_refresh call,
\* both in-memory fields are replaced by the acquired pair, and the acquired
\* pair is persisted over the half-populated one.
C17_HalfPairAcquiresAfresh ==
    CtorReadHalf =>
        /\ CountCalls(ctorCalls, "check_and_refresh") = 0
        /\ CountCalls(ctorCalls, "get_tokens") <= 1
        /\ \A c \in Callers :
              op[c] = "ctor" /\ pc[c] \in {"initial_adopt", "initial_persist"} =>
                  CountCalls(ctorCalls, "get_tokens") = 1
        /\ phase = "Ready" =>
              /\ Len(ctorCalls) = 3
              /\ ctorCalls[2].fn = "get_tokens"
              /\ ctorCalls[2].ok
              /\ ctorCalls[3] =
                    Call("persist",
                         OAuthToken(ctorCalls[2].ret[1], ctorCalls[2].ret[2]),
                         TRUE, <<>>)
              /\ injects = 0 =>
                    /\ Pair = ctorCalls[2].ret
                    /\ store = <<OAuthToken(ctorCalls[2].ret[1], ctorCalls[2].ret[2])>>

\* C17 witness: the store held ("a1", None) and construction returned with
\* the acquired ("a2", "r1") in memory and in the store
C17_Witness ==
    /\ CtorReadHalf
    /\ CtorStoredPair = <<"a1", None>>
    /\ phase = "Ready"
    /\ injects = 0
    /\ Pair = <<"a2", "r1">>
    /\ store = <<OAuthToken("a2", "r1")>>

\* callers c and d each had a refresh reported by a check_and_refresh that
\* was invoked before the other's fresh access token was adopted
DoubleRefresh(c, d) ==
    /\ c # d
    /\ kind = "oauth"
    /\ op[c] = "inject"
    /\ op[d] = "inject"
    /\ CheckReported(calls[c], TRUE)
    /\ CheckReported(calls[d], TRUE)
    /\ checkedAt[c] = checkedAt[d]

\* C18: with two callers inside add_headers of one OAuth provider and no
\* lock, both can invoke check_and_refresh with the same pre-refresh pair
\* before either adopts a new pair, so two refresh exchanges are performed
\* for one expiry; while no caller enters add_headers during another's call,
\* this never happens.
C18_DoubleRefreshNeedsOverlap ==
    \A c \in Callers, d \in Callers : DoubleRefresh(c, d) => overlap

\* C18 witness: two callers had a refresh of the same pair ("a1", "r1")
\* reported, each before the other adopted
C18_Witness ==
    \E c \in Callers, d \in Callers :
        /\ DoubleRefresh(c, d)
        /\ calls[c][1].arg = <<"a1", "r1">>
        /\ calls[d][1].arg = <<"a1", "r1">>
        /\ pc[c] = "idle"
        /\ pc[d] = "idle"

\* in a call record every reported refresh is followed by a persist call
RefreshThenPersist(log) ==
    \A i \in 1..Len(log) :
        log[i].fn = "check_and_refresh" /\ log[i].ok /\ log[i].ret[3] =>
            Len(log) > i /\ log[i + 1].fn = "persist"

\* C19: an OAuth provider is never successfully constructed without a token
\* store. With oauth_persistence absent, construction skips the store read,
\* makes one acquire call, fails at the unguarded persist step and
\* propagates the failure; so a constructed provider always has a token
\* store and every refresh is followed by a persist call.
C19_NoProviderWithoutStore ==
    kind = "oauth" =>
        /\ phase = "Ready" => _oauth_persistence
        /\ ~_oauth_persistence =>
              /\ CountCalls(ctorCalls, "read") = 0
              /\ CountCalls(ctorCalls, "check_and_refresh") = 0
              /\ CountCalls(ctorCalls, "persist") = 0
              /\ CountCalls(ctorCalls, "get_tokens") <= 1
              /\ \A c \in Callers :
                    op[c] = "ctor" /\ pc[c] = "idle" =>
                        /\ phase = "Failed"
                        /\ outcome[c] = "raised"
                        /\ Len(ctorCalls) = 1
                        /\ ctorCalls[1].fn = "get_tokens"
        /\ phase = "Ready" => RefreshThenPersist(ctorCalls)
        /\ \A c \in Callers : InjectOver(c) => RefreshThenPersist(calls[c])

\* C19 witness: without a token store, construction failed after an acquire
\* that returned
C19_Witness ==
    /\ kind = "oauth"
    /\ ~_oauth_persistence
    /\ phase = "Failed"
    /\ Len(ctorCalls) = 1
    /\ ctorCalls[1].fn = "get_tokens"
    /\ ctorCalls[1].ok
    /\ Pair = ctorCalls[1].ret

====
